---- MODULE Spec2Model ----
(***************************************************************************)
(* Transcription pipeline of MediaService (src/services/media_service.py)  *)
(* and OpenRouterAPI.transcribe_audio (src/clients/openrouter_api.py).     *)
(*                                                                         *)
(* Sizes are counted in hundredths of a MB (file_size_mb * 100), so 10 MB  *)
(* is 1000 and the 9.5 MB re-check threshold is 950.                       *)
(*                                                                         *)
(* Identities.  The main task (transcribe_audio and the depth-0 run of     *)
(* _transcribe_with_ffmpeg_chunking) is <<>>.  The chunk with index i of   *)
(* the run r is r \o <<i>>; it is at once the chunk file, the asyncio task *)
(* of transcribe_chunk_with_limit for it, and the nested run that re-splits*)
(* it.  Len(r) is the recursion_depth of run r.                            *)
(*                                                                         *)
(* Scheduling.  asyncio runs one task at a time and a task keeps the loop  *)
(* until it awaits something that is not ready: cur is the task that holds *)
(* the loop.  requests.post is a blocking call, so a task keeps the loop   *)
(* while its remote call is in flight.  Which ready task runs next is left *)
(* open.                                                                   *)
(*                                                                         *)
(* ConversationRepository (src/database/repositories/                      *)
(* conversation_repository.py) is a second component: its calls are the    *)
(* actions of ConvSpec and act on the table conversations only.            *)
(*                                                                         *)
(* Three further specifications look at one part each: SegSpec at the      *)
(* names of the segment files and their order in chunk_paths, UrlSpec at   *)
(* the URL requests of the message handler, which share the file           *)
(* audio_temp.m4a, and BudgetSpec at the re-check of a chunk under each    *)
(* configured MAX_FILE_SIZE_MB.  FairSpec is Spec with the fairness of the *)
(* event loop.                                                             *)
(***************************************************************************)
EXTENDS Integers, Sequences, FiniteSets, TLC

\* ---------------------------------------------------------------- bounds
\* chunk tasks created over one request in the general scenario
MaxTasks == 3

\* chunks of the depth-0 plan in the wide scenario (more chunks than slots)
WideChunks == 6

\* chunks of every plan in the deep scenario, and of the depth-0 plan in
\* the heavy scenario
DeepChunks == 2

\* conversation ids a client can name or uuid4 can draw
MaxConvs == 3

\* segment files one split writes: one more than the numbers of three digits
MaxSegments == 1001

\* the largest budget MAX_FILE_SIZE_MB is configured with, in MB
MaxBudget == 20

\* URL requests whose handlers overlap
MaxRequests == 3

\* ------------------------------------------------------ program constants
MAX_FILE_SIZE_MB == 10

MAX_RECURSION == 3

MAX_CONCURRENT_TRANSCRIPTIONS == 5

MIN_CHUNK_DURATION == 30

\* chunk_size_mb > 9.5, in hundredths of a MB
RECHECK_LIMIT == 950

\* chunk_size_mb < 0.01, in hundredths of a MB
SKIP_LIMIT == 1

\* safety_margin = 0.85, in percent
SAFETY_MARGIN_PCT == 85

\* --------------------------------------------------------------- values
\* Optional[str]: None, a string (a sequence of tokens), or a raised exception
None == [kind |-> "none", text |-> <<>>]

Str(t) == [kind |-> "str", text |-> t]

Exc == [kind |-> "exc", text |-> <<>>]

\* gather slot of a task that has not finished
Pending == [kind |-> "pending", text |-> <<>>]

\* Python truthiness of an Optional[str]: None and "" are falsy
Truthy(v) == v.kind = "str" /\ v.text # <<>>

\* the text the remote endpoint returns for the audio of file c
Tok(c) == [k |-> "txt", c |-> c]

\* the separator "\n\n"
Sep == [k |-> "sep", c |-> <<>>]

\* the loop is idle: no task is running
Idle == << 0 >>

\* temp_dir = None: the run has made no directory
NoDir == << 0 >>

Parent(c) == SubSeq(c, 1, Len(c) - 1)

\* audio_path of the request: a path in no temp_dir of the pipeline
AudioPath == << 0, 0 >>

Index(c) == c[Len(c)]

\* ------------------------------------------------------------ the inputs
\* general: every fault, few chunks.  wide: no fault, more chunks than
\* slots.  deep: the first chunk of every plan is oversized, down to the
\* recursion ceiling, and only the remote call can fail.  heavy: no fault,
\* and every chunk of every plan is oversized.
Scenarios == {"general", "wide", "deep", "heavy"}

TopSizes(s) == IF s = "general" THEN {500, 1000, 1020} ELSE {1001}

\* os.path.getsize of chunk c; -1 stands for getsize raising OSError.
\* In the wide scenario the first chunk of the depth-0 plan fits, the next
\* five (as many as the limiter has slots) are oversized, any further chunk
\* fits, and the re-split chunks fit.
ChunkSizes(s, c) ==
    IF s = "wide"
    THEN (IF Len(c) = 1 /\ c[1] \in 2 .. (MAX_CONCURRENT_TRANSCRIPTIONS + 1)
          THEN {951} ELSE {950})
    ELSE IF s = "deep"
    THEN (IF Index(c) = 1 THEN {951} ELSE {950})
    ELSE IF s = "heavy" THEN {951}
    ELSE {-1, 0, 950, 951}

\* ffprobe: a duration in seconds, a non-zero return code, or an exception
ProbeOutcomes(s) == IF s = "general" THEN {30, 36, -1, -2} ELSE {36}

\* the two ffmpeg segment passes: stream copy, then re-encode
SplitOutcomes(s) ==
    IF s = "general" THEN {"copy", "reencode", "fail", "timeout"} ELSE {"copy"}

\* HTTP outcome of requests.post
Responses(s) ==
    IF s \in {"wide", "heavy"} THEN {"200"}
    ELSE IF s = "deep" THEN {"200", "500"}
    ELSE {"200", "200empty", "413", "500", "exc"}

\* reading the file for base64 encoding succeeds or raises
ReadOutcomes(s) == IF s = "general" THEN {TRUE, FALSE} ELSE {TRUE}

\* _check_ffmpeg and os.path.getsize at the start of a run
EntryOutcomes(s) == IF s = "general" THEN {"ok", "noffmpeg", "exc"} ELSE {"ok"}

\* --------------------------------------------------------- pure functions
\* OpenRouterAPI.transcribe_audio: the value returned for an HTTP outcome
ApiTranscribe(resp, c) ==
    CASE resp = "200"      -> Str(<< Tok(c) >>)
      [] resp = "200empty" -> Str(<<>>)
      [] resp = "413"      -> None
      [] resp = "500"      -> None
      [] resp = "exc"      -> None

\* a _transcribe_single_audio that returns whatever the api call gave
TranscribeSingleAsIs(result) == result

\* _transcribe_single_audio: result of the api call to the returned value
TranscribeSingle(result) == IF Truthy(result) THEN result ELSE None

\* transcribe_chunk_with_limit: `if text: return text else: return None`
ChunkReturn(text) == IF Truthy(text) THEN text ELSE None

\* transcribe_audio without its try/except
TopNoExcept(v) == v

\* `except Exception: return None` of transcribe_audio
TopExcept(v) == IF v.kind = "exc" THEN None ELSE v

\* `except Exception: return None` of _transcribe_single_audio
SingleExcept(v) == IF v.kind = "exc" THEN None ELSE v

\* `except Exception: return None` of transcribe_chunk_with_limit
ChunkExcept(v) == IF v.kind = "exc" THEN None ELSE v

\* `except Exception: ... return None` of _transcribe_with_ffmpeg_chunking
RunExcept(v) == IF v.kind = "exc" THEN None ELSE v

\* a strict comparison in place of `<=`
UseDirectPathStrict(size) == size < MAX_FILE_SIZE_MB * 100

\* no size check: every file is sent as a whole
UseDirectPathAlways(size) == TRUE

\* transcribe_audio: `if file_size_mb <= MAX_FILE_SIZE_MB`
UseDirectPath(size) == size <= MAX_FILE_SIZE_MB * 100

\* no depth check: a run splits at any depth
AtCeilingNever(depth) == FALSE

\* a depth check that lets the run at depth MAX_RECURSION split again
AtCeilingLate(depth) == depth > MAX_RECURSION

\* `if recursion_depth >= MAX_RECURSION: return None`
AtCeiling(depth) == depth >= MAX_RECURSION

\* transcribe_chunk_with_limit: `if chunk_size_mb < 0.01`
IsSkipped(size) == size < SKIP_LIMIT

\* a re-check that also re-splits a chunk of exactly 9.5 MB
NeedsResplitAtLimit(size) == size >= RECHECK_LIMIT

\* transcribe_chunk_with_limit: `if chunk_size_mb > 9.5`
NeedsResplit(size) == size > RECHECK_LIMIT

\* a floor that also rejects a chunk duration of exactly 30 seconds
BelowFloorInclusive(maxMb, size, duration) ==
    maxMb * SAFETY_MARGIN_PCT * duration <= MIN_CHUNK_DURATION * size

\* chunk_duration = (max_chunk_size_mb * 0.85 / file_size_mb) * duration
\* compared with MIN_CHUNK_DURATION, cross-multiplied
BelowFloor(maxMb, size, duration) ==
    maxMb * SAFETY_MARGIN_PCT * duration < MIN_CHUNK_DURATION * size

\* a filter that drops nothing: a failed chunk stays as an empty text
FilterKeepsFailed(results) == [i \in 1 .. Len(results) |-> results[i].text]

\* the filter loop over the gathered results
RECURSIVE Filter(_)
Filter(results) ==
    IF results = <<>> THEN <<>>
    ELSE IF Truthy(Head(results))
         THEN << Head(results).text >> \o Filter(Tail(results))
         ELSE Filter(Tail(results))

\* "\n\n".join(transcriptions)
RECURSIVE Join(_)
Join(ts) ==
    IF ts = <<>> THEN <<>>
    ELSE IF Len(ts) = 1 THEN Head(ts)
    ELSE Head(ts) \o << Sep >> \o Join(Tail(ts))

\* a merge without the emptiness check
MergeResultUnchecked(ts) == Str(Join(ts))

\* `if transcriptions: return merged_text else: return None`
MergeResult(ts) == IF ts # <<>> THEN Str(Join(ts)) ELSE None

\* results collected in completion order (as_completed in place of gather)
GatherStoreByCompletion(results, i, v) ==
    LET k == CHOOSE j \in 1 .. Len(results) :
                 /\ results[j] = Pending
                 /\ \A m \in 1 .. (j - 1) : results[m] # Pending
    IN [results EXCEPT ![k] = v]

\* results collected from the last slot down, in completion order
GatherStoreFromLast(results, i, v) ==
    LET k == CHOOSE j \in 1 .. Len(results) :
                 /\ results[j] = Pending
                 /\ \A m \in (j + 1) .. Len(results) : results[m] # Pending
    IN [results EXCEPT ![k] = v]

\* asyncio.gather: the result of a task goes to the slot of its position
GatherStore(results, i, v) == [results EXCEPT ![i] = v]

\* plan sizes the split can produce: the number of chunk_NNN files
PlanSizes(s, depth, made) ==
    IF s = "wide"
    THEN (IF depth = 0 THEN {WideChunks} ELSE {1})
    ELSE IF s = "deep" THEN {DeepChunks}
    ELSE IF s = "heavy" THEN (IF depth = 0 THEN {DeepChunks} ELSE {1})
    ELSE 0 .. (MaxTasks - made)

\* ---------------------------------------------------------------- state
VARIABLES
    scn,        \* the family the inputs of this request are drawn from
    fileSize,   \* size of the file at audio_path
    top,        \* transcribe_audio: its position and its return value
    run,        \* live invocations of _transcribe_with_ffmpeg_chunking
    task,       \* chunk tasks of the live runs
    dirs,       \* temp directories on disk
    files,      \* chunk files on disk
    source,     \* files on disk that the caller made: the one at audio_path
    cur,        \* the task that holds the event loop, or Idle
    created,    \* chunk tasks created so far
    raised,     \* where an exception was raised so far: "main", "chunk"
    inputs,     \* what the environment answered so far, by run and chunk
    conversations,  \* the rows of the table 'conversations', by id
    lastCall,   \* the last call of ConversationRepository and its outcome
    segDir,     \* names of the segment files in one temp_dir, in name order
    segPlan,    \* chunk_paths of that directory, once collected
    segPc,      \* the splitter of that directory: "split", then "listed"
    req,        \* the URL requests of the message handler, by request
    tempFile,   \* whose audio the file audio_temp.m4a holds; 0: no file
    budget,     \* the configured MAX_FILE_SIZE_MB; 0: not loaded
    piece       \* one chunk of a split under that budget and its fate

vars ==
    << scn, fileSize, top, run, task, dirs, files, source, cur, created, raised,
       inputs, conversations, lastCall, segDir, segPlan, segPc,
       req, tempFile, budget, piece >>

\* the state of ConversationRepository
repository == << conversations, lastCall >>

\* the state of the segment naming
naming == << segDir, segPlan, segPc >>

\* the state of the URL requests
urls == << req, tempFile >>

\* the state of the budget check
budgets == << budget, piece >>

\* the state the transcription pipeline leaves alone
outside == << repository, naming, urls, budgets >>

\* the URL requests that overlap
Requests == 1 .. MaxRequests

\* a request that has just arrived; 0: no audio
NewRequest == [pc |-> "idle", heard |-> 0, measured |-> 0, removed |-> 0]

\* no chunk was made yet
NoPiece == [size |-> 0, depth |-> 0, state |-> "none"]

\* no call of ConversationRepository was made
NoCall == [op |-> "none", user_id |-> "none", id |-> 0, ok |-> FALSE]

\* the answers of the environment to the run x and to the chunk task x: the
\* size read, _check_ffmpeg, the probed duration, the failure of the segment
\* passes or the number of chunk files they left, and the outcome of the
\* remote call.  Once the task of a
\* re-split chunk has taken the text of its nested run, that text (out)
\* stands for the answers given inside the nested run; once a chunk task
\* has ended, the value it returned (out) stands for its answers.
NoInput ==
    [size |-> -2, entry |-> "none", dur |-> -3, split |-> "none",
     plan |-> -1, resp |-> "none", out |-> Pending]

\* the answers with field f of x set
Answered(x, f, v) ==
    LET old == IF x \in DOMAIN inputs THEN inputs[x] ELSE NoInput
        new == CASE f = "size"  -> [old EXCEPT !.size = v]
                 [] f = "entry" -> [old EXCEPT !.entry = v]
                 [] f = "dur"   -> [old EXCEPT !.dur = v]
                 [] f = "split" -> [old EXCEPT !.split = v]
                 [] f = "plan"  -> [old EXCEPT !.plan = v]
                 [] f = "resp"  -> [old EXCEPT !.resp = v]
    IN (x :> new) @@ inputs

\* the answers once the task of chunk c has taken the value v of its call:
\* those given inside a nested run of c are replaced by v
Summarised(c, v) ==
    IF ~NeedsResplit(inputs[c].size) THEN inputs
    ELSE [x \in { y \in DOMAIN inputs :
                    Len(y) <= Len(c) \/ SubSeq(y, 1, Len(c)) # c } |->
            IF x = c
            THEN [NoInput EXCEPT !.size = inputs[c].size, !.out = v]
            ELSE inputs[x]]

\* the level at which the code of run r executes
Level(r) == IF r = << >> THEN "main" ELSE "chunk"

NewRun(size, maxMb) ==
    [pc |-> "entry", size |-> size, maxMb |-> maxMb, dir |-> NoDir,
     n |-> 0, sem |-> 0,
     results |-> <<>>, trans |-> <<>>, ooo |-> FALSE]

NewTask(path) ==
    [pc |-> "ready", path |-> path, size |-> -2, val |-> None, ret |-> None,
     del |-> 0, posts |-> 0]

ChunksOf(r) == { c \in DOMAIN task : Parent(c) = r }

Init ==
    /\ scn \in Scenarios
    /\ fileSize \in TopSizes(scn)
    /\ top = [pc |-> "start", size |-> -2, result |-> None, calls |-> 0,
              posts |-> 0, resp |-> "none"]
    /\ run = << >>
    /\ task = << >>
    /\ dirs = {}
    /\ files = {}
    /\ source = {AudioPath}
    /\ cur = << >>
    /\ created = 0
    /\ raised = {}
    /\ inputs = << >>
    /\ conversations = << >>
    /\ lastCall = NoCall
    /\ segDir = << >>
    /\ segPlan = << >>
    /\ segPc = "split"
    /\ req = [q \in Requests |-> NewRequest]
    /\ tempFile = 0
    /\ budget = 0
    /\ piece = NoPiece

\* ------------------------------------------------------ transcribe_audio
\* a failed direct call that falls back to chunking
AfterDirectFallback(v) == IF Truthy(v) THEN "done" ELSE "chunked"

\* the state transcribe_audio moves to after the direct call returned
AfterDirect(v) == "done"

\* getsize, then the choice of the path
TopStart ==
    /\ top.pc = "start"
    /\ cur = << >>
    /\ \E sz \in {-1, fileSize} :
         /\ IF sz = -1
            THEN /\ top' = [top EXCEPT !.pc = "done", !.size = sz,
                                       !.result = TopExcept(Exc)]
                 /\ cur' = Idle
                 /\ run' = run
            ELSE IF UseDirectPath(sz)
            THEN /\ top' = [top EXCEPT !.pc = "direct", !.size = sz, !.calls = @ + 1]
                 /\ cur' = cur
                 /\ run' = run
            ELSE /\ top' = [top EXCEPT !.pc = "chunked", !.size = sz]
                 /\ cur' = cur
                 /\ run' = (<< >> :> NewRun(sz, MAX_FILE_SIZE_MB)) @@ run
         /\ raised' = IF sz = -1 THEN raised \cup {"main"} ELSE raised
         /\ inputs' = Answered(<< >>, "size", sz)
    /\ UNCHANGED << outside, source, scn, fileSize, task, dirs, files, created >>

\* the direct call returned v to transcribe_audio after HTTP outcome resp
DirectReturn(v, resp) ==
    IF AfterDirect(v) = "done"
    THEN /\ top' = [top EXCEPT !.pc = "done", !.result = TopExcept(v), !.resp = resp]
         /\ cur' = Idle
         /\ run' = run
    ELSE /\ top' = [top EXCEPT !.pc = "chunked", !.resp = resp]
         /\ cur' = cur
         /\ run' = (<< >> :> NewRun(fileSize, MAX_FILE_SIZE_MB)) @@ run

\* _transcribe_single_audio on the whole file: read and encode it
DirectRead ==
    /\ top.pc = "direct"
    /\ cur = << >>
    /\ \E ok \in ReadOutcomes(scn) :
         /\ IF ok
            THEN /\ top' = [top EXCEPT !.pc = "post", !.posts = @ + 1]
                 /\ cur' = cur
                 /\ run' = run
            ELSE DirectReturn(SingleExcept(Exc), "none")
         /\ raised' = IF ~ok THEN raised \cup {"main"} ELSE raised
    /\ UNCHANGED << outside, source, scn, fileSize, inputs, task, dirs, files, created >>

\* the remote call of the direct path returns
DirectResponse ==
    /\ top.pc = "post"
    /\ cur = << >>
    /\ \E resp \in Responses(scn) :
         /\ DirectReturn(TranscribeSingle(ApiTranscribe(resp, << >>)), resp)
         /\ raised' = IF resp = "exc" THEN raised \cup {"main"} ELSE raised
    /\ UNCHANGED << outside, source, scn, fileSize, inputs, task, dirs, files, created >>

\* ------------------------------------- _transcribe_with_ffmpeg_chunking
\* run r returns v to its caller: transcribe_audio for the depth-0 run, the
\* chunk task r for a nested run, whose frame and finished tasks go away
Return(r, v) ==
    IF r = << >>
    THEN /\ top' = [top EXCEPT !.pc = "done", !.result = TopExcept(v)]
         /\ run' = [run EXCEPT ![r].pc = "returned"]
         /\ task' = task
         /\ cur' = Idle
    ELSE /\ top' = top
         /\ run' = [x \in DOMAIN run \ {r} |-> run[x]]
         /\ task' = [x \in DOMAIN task \ ChunksOf(r) |->
                       IF x = r THEN [task[x] EXCEPT !.pc = "after", !.val = v]
                       ELSE task[x]]
         /\ cur' = cur

\* the depth check, _check_ffmpeg and getsize
RunEntry(r) ==
    /\ r \in DOMAIN run
    /\ cur = r
    /\ run[r].pc = "entry"
    /\ IF AtCeiling(Len(r))
       THEN Return(r, None) /\ raised' = raised /\ inputs' = inputs
       ELSE \E e \in EntryOutcomes(scn) :
              /\ IF e = "ok"
                 THEN /\ run' = [run EXCEPT ![r].pc = "probe"]
                      /\ UNCHANGED << top, task, cur >>
                 ELSE IF e = "noffmpeg"
                 THEN Return(r, None)
                 ELSE Return(r, RunExcept(Exc))
              /\ raised' = IF e = "exc" THEN raised \cup {Level(r)} ELSE raised
              /\ inputs' = Answered(r, "entry", e)
    /\ UNCHANGED << outside, source, scn, fileSize, dirs, files, created >>

\* ffprobe and the chunk duration floor
RunProbe(r) ==
    /\ r \in DOMAIN run
    /\ cur = r
    /\ run[r].pc = "probe"
    /\ \E d \in ProbeOutcomes(scn) :
         /\ IF d < 0 \/ BelowFloor(run[r].maxMb, run[r].size, d)
            THEN Return(r, None)
            ELSE /\ run' = [run EXCEPT ![r].pc = "mkdtemp"]
                 /\ UNCHANGED << top, task, cur >>
         /\ raised' = IF d = -2 THEN raised \cup {Level(r)} ELSE raised
         /\ inputs' = Answered(r, "dur", d)
    /\ UNCHANGED << outside, source, scn, fileSize, dirs, files, created >>

\* one directory name for every run
MkdTempFixed(r) == << >>

\* the name tempfile.mkdtemp(prefix="audio_chunks_") returns to run r: a
\* directory that did not exist, so a name no other run holds; the chunk
\* file chunk_00i in the directory d is d \o <<i>>
MkdTemp(r) == r

\* tempfile.mkdtemp
RunMkdtemp(r) ==
    /\ r \in DOMAIN run
    /\ cur = r
    /\ run[r].pc = "mkdtemp"
    /\ dirs' = dirs \cup {MkdTemp(r)}
    /\ run' = [run EXCEPT ![r].pc = "split", ![r].dir = MkdTemp(r)]
    /\ UNCHANGED << outside, source, scn, fileSize, inputs, top, task, files, cur, created, raised >>

\* the except clause of the run: rmtree(temp_dir) when it exists
ExceptCleanupDirs(d, ds) == ds \ {d}

\* the files in the directory d: those rmtree removes, those listdir lists
FilesIn(d, fs) == { f \in fs : Parent(f) = d }

\* sorted(...) of the chunk files of one directory
RECURSIVE SortedPaths(_)
SortedPaths(fs) ==
    IF fs = {} THEN << >>
    ELSE LET f == CHOOSE x \in fs : \A y \in fs : Index(x) <= Index(y)
         IN << f >> \o SortedPaths(fs \ {f})

\* the ffmpeg segment pass, with the re-encode pass when stream copy fails
RunSplit(r) ==
    /\ r \in DOMAIN run
    /\ cur = r
    /\ run[r].pc = "split"
    /\ \E o \in SplitOutcomes(scn) :
         /\ IF o = "fail"
            THEN /\ Return(r, None)
                 /\ inputs' = Answered(r, "split", o)
                 /\ UNCHANGED << dirs, files, source >>
            ELSE IF o = "timeout"
            THEN /\ Return(r, RunExcept(Exc))
                 /\ inputs' = Answered(r, "split", o)
                 /\ dirs' = ExceptCleanupDirs(run[r].dir, dirs)
                 /\ files' = files \ FilesIn(run[r].dir, files)
                 /\ source' = source \ FilesIn(run[r].dir, source)
            ELSE \E n \in PlanSizes(scn, Len(r), created) :
                   /\ files' = files \cup { run[r].dir \o << i >> : i \in 1 .. n }
                   /\ source' = source \ { run[r].dir \o << i >> : i \in 1 .. n }
                   /\ run' = [run EXCEPT ![r].pc = "collect"]
                   /\ inputs' = Answered(r, "plan", n)
                   /\ UNCHANGED << top, task, cur, dirs >>
         /\ raised' = IF o = "timeout" THEN raised \cup {Level(r)} ELSE raised
    /\ UNCHANGED << outside, scn, fileSize, created >>

\* one limiter for the whole invocation tree: a nested run starts with the
\* slots its caller's limiter has left
SemaphoreOfCaller(r) ==
    IF r = << >> THEN MAX_CONCURRENT_TRANSCRIPTIONS ELSE run[Parent(r)].sem

\* `semaphore = asyncio.Semaphore(MAX_CONCURRENT_TRANSCRIPTIONS)`, a local
\* of the invocation r
Semaphore(r) == MAX_CONCURRENT_TRANSCRIPTIONS

\* chunk_paths = sorted(listdir), the semaphore, the tasks, and gather
RunCollect(r) ==
    /\ r \in DOMAIN run
    /\ cur = r
    /\ run[r].pc = "collect"
    /\ LET chunk_paths == SortedPaths(FilesIn(run[r].dir, files))
           n == Len(chunk_paths)
       IN IF n = 0
          THEN /\ Return(r, None)
               /\ created' = created
          ELSE /\ run' = [run EXCEPT ![r].pc = "gather", ![r].n = n,
                            ![r].sem = Semaphore(r),
                            ![r].results = [i \in 1 .. n |-> Pending]]
               /\ task' = [c \in { r \o << i >> : i \in 1 .. n } |->
                              NewTask(chunk_paths[Index(c)])] @@ task
               /\ created' = created + n
               /\ cur' = Idle
               /\ top' = top
    /\ UNCHANGED << outside, source, scn, fileSize, inputs, dirs, files, raised >>

\* a gather that returns as soon as one task ended without a text
GatherDoneFailFast(r) ==
    \/ \A c \in ChunksOf(r) : task[c].pc = "done"
    \/ \E c \in ChunksOf(r) : task[c].pc = "done" /\ ~Truthy(task[c].ret)

\* `await asyncio.gather(*tasks, return_exceptions=True)` returns when every
\* task of the plan has ended, whatever its outcome
GatherDone(r) == \A c \in ChunksOf(r) : task[c].pc = "done"

\* gather returns when every task of the plan is done; the filter loop
RunResume(r) ==
    /\ r \in DOMAIN run
    /\ cur = Idle
    /\ run[r].pc = "gather"
    /\ GatherDone(r)
    /\ cur' = r
    /\ run' = [run EXCEPT ![r].pc = "rmtree", ![r].trans = Filter(run[r].results)]
    /\ UNCHANGED << outside, source, scn, fileSize, inputs, top, task, dirs, files, created, raised >>

\* shutil.rmtree(temp_dir) on the normal path
RunRmtree(r) ==
    /\ r \in DOMAIN run
    /\ cur = r
    /\ run[r].pc = "rmtree"
    /\ dirs' = dirs \ {run[r].dir}
    /\ files' = files \ FilesIn(run[r].dir, files)
    /\ source' = source \ FilesIn(run[r].dir, source)
    /\ run' = [run EXCEPT ![r].pc = "merge"]
    /\ UNCHANGED << outside, scn, fileSize, inputs, top, task, cur, created, raised >>

\* the merge and the return
RunMerge(r) ==
    /\ r \in DOMAIN run
    /\ cur = r
    /\ run[r].pc = "merge"
    /\ Return(r, MergeResult(run[r].trans))
    /\ UNCHANGED << outside, source, scn, fileSize, inputs, dirs, files, created, raised >>

\* --------------------------------------------- transcribe_chunk_with_limit
\* an acquire that does not count the slot it takes
SemAcquireUncounted(sem) == sem

\* `async with semaphore`: the task enters when a slot is free
SemAcquire(sem) == sem - 1

\* leaving `async with semaphore`
SemRelease(sem) == sem + 1

\* one limiter of the depth-0 run that the tasks of every level enter
LimiterOfRoot(c) == << >>

\* the semaphore the closure transcribe_chunk_with_limit of chunk c enters:
\* the local of the invocation that made the task
Limiter(c) == Parent(c)

TaskAcquire(c) ==
    /\ c \in DOMAIN task
    /\ cur = Idle
    /\ task[c].pc = "ready"
    /\ run[Limiter(c)].sem > 0
    /\ run' = [run EXCEPT ![Limiter(c)].sem = SemAcquire(@)]
    /\ task' = [task EXCEPT ![c].pc = "body"]
    /\ cur' = c
    /\ UNCHANGED << outside, source, scn, fileSize, inputs, top, dirs, files, created, raised >>

\* getsize of the chunk: skip it, re-split it, or transcribe it
TaskCheckSize(c) ==
    /\ c \in DOMAIN task
    /\ cur = c
    /\ task[c].pc = "body"
    /\ \E sz \in ChunkSizes(scn, c) :
         /\ IF sz = -1
            THEN /\ task' = [task EXCEPT ![c].pc = "finally", ![c].size = sz,
                               ![c].ret = ChunkExcept(Exc)]
                 /\ run' = run
            ELSE IF IsSkipped(sz)
            THEN /\ task' = [task EXCEPT ![c].pc = "finally", ![c].size = sz,
                               ![c].ret = None]
                 /\ run' = run
            ELSE IF NeedsResplit(sz)
            THEN /\ task' = [task EXCEPT ![c].pc = "nested", ![c].size = sz]
                 /\ run' = (c :> NewRun(sz, run[Parent(c)].maxMb)) @@ run
            ELSE /\ task' = [task EXCEPT ![c].pc = "single", ![c].size = sz]
                 /\ run' = run
         /\ raised' = IF sz = -1 THEN raised \cup {"chunk"} ELSE raised
         /\ inputs' = Answered(c, "size", sz)
    /\ UNCHANGED << outside, source, scn, fileSize, top, dirs, files, cur, created >>

\* _transcribe_single_audio on the chunk: read and encode it
TaskRead(c) ==
    /\ c \in DOMAIN task
    /\ cur = c
    /\ task[c].pc = "single"
    /\ \E ok \in ReadOutcomes(scn) :
         /\ IF ok
            THEN task' = [task EXCEPT ![c].pc = "post", ![c].posts = @ + 1]
            ELSE task' = [task EXCEPT ![c].pc = "after", ![c].val = SingleExcept(Exc)]
         /\ raised' = IF ~ok THEN raised \cup {"chunk"} ELSE raised
         /\ inputs' = IF ok THEN inputs ELSE Answered(c, "resp", "unread")
    /\ UNCHANGED << outside, source, scn, fileSize, top, run, dirs, files, cur, created >>

\* a remote call that is made again when it brought no text
AfterCallRetry(v) == IF Truthy(v) THEN "after" ELSE "single"

\* _transcribe_single_audio returns what its one call of the api gave: the
\* task goes on to `if text:`
AfterCall(v) == "after"

\* the remote call of the chunk returns
TaskResponse(c) ==
    /\ c \in DOMAIN task
    /\ cur = c
    /\ task[c].pc = "post"
    /\ \E resp \in Responses(scn) :
         /\ LET v == TranscribeSingle(ApiTranscribe(resp, c))
            IN task' = [task EXCEPT ![c].pc = AfterCall(v), ![c].val = v]
         /\ raised' = IF resp = "exc" THEN raised \cup {"chunk"} ELSE raised
         /\ inputs' = Answered(c, "resp", resp)
    /\ UNCHANGED << outside, source, scn, fileSize, top, run, dirs, files, cur, created >>

\* `if text:` on the text of the remote call or of the nested run
TaskResult(c) ==
    /\ c \in DOMAIN task
    /\ cur = c
    /\ task[c].pc = "after"
    /\ task' = [task EXCEPT ![c].pc = "finally",
                 ![c].ret = IF task[c].val.kind = "exc"
                            THEN ChunkExcept(task[c].val)
                            ELSE ChunkReturn(task[c].val)]
    /\ inputs' = Summarised(c, task[c].val)
    /\ UNCHANGED << outside, source, scn, fileSize, top, run, dirs, files, cur, created, raised >>

\* a task without the finally clause
FinallyRemovesNothing(chunk_path, fs) == FALSE

\* the finally clause: `if os.path.exists(chunk_path): os.remove(chunk_path)`
FinallyRemoves(chunk_path, fs) == chunk_path \in fs

\* a finally clause that removes the file the invocation was given
AudioPathOf(c) == IF Parent(c) = << >> THEN AudioPath ELSE task[Parent(c)].path

\* the path the finally clause removes: chunk_path, the argument of the task
ChunkPath(c) == task[c].path

TaskFinally(c) ==
    /\ c \in DOMAIN task
    /\ cur = c
    /\ task[c].pc = "finally"
    /\ IF FinallyRemoves(ChunkPath(c), files \cup source)
       THEN /\ files' = files \ {ChunkPath(c)}
            /\ source' = source \ {ChunkPath(c)}
            /\ task' = [task EXCEPT ![c].pc = "release", ![c].del = @ + 1]
       ELSE /\ files' = files
            /\ source' = source
            /\ task' = [task EXCEPT ![c].pc = "release"]
    /\ UNCHANGED << outside, scn, fileSize, inputs, top, run, dirs, cur, created, raised >>

\* the task leaves the semaphore and ends; gather records its result
TaskRelease(c) ==
    /\ c \in DOMAIN task
    /\ cur = c
    /\ task[c].pc = "release"
    /\ run' = [run EXCEPT ![Limiter(c)].sem = SemRelease(@),
                 ![Parent(c)].results = GatherStore(@, Index(c), task[c].ret),
                 ![Parent(c)].ooo = @ \/ \E d \in ChunksOf(Parent(c)) :
                                          Index(d) < Index(c) /\ task[d].pc # "done"]
    /\ task' = [task EXCEPT ![c].pc = "done"]
    /\ cur' = Idle
    /\ inputs' = (c :> [NoInput EXCEPT !.size = inputs[c].size,
                                       !.out = task[c].ret]) @@ inputs
    /\ UNCHANGED << outside, source, scn, fileSize, top, dirs, files, created, raised >>

\* ------------------------------------------------ ConversationRepository
Users == {"u1", "u2"}

ConvIds == 1 .. MaxConvs

\* the state of the pipeline, which the repository does not touch
pipeline ==
    << scn, fileSize, top, run, task, dirs, files, source, cur, created, raised,
       inputs >>

\* a create_conversation that does not deactivate the other conversations
DeactivateNone(tbl, u) == tbl

\* deactivate_all_conversations: update is_active = False where user_id = u
\* and is_active
DeactivateAll(tbl, u) ==
    [i \in DOMAIN tbl |->
        IF tbl[i].user_id = u /\ tbl[i].is_active
        THEN [tbl[i] EXCEPT !.is_active = FALSE]
        ELSE tbl[i]]

\* create_conversation: deactivate the conversations of the user, then
\* insert the new row as active; the insert of an id that is already in the
\* table raises after the deactivation was done
CreateConversation(u, id) ==
    /\ LET tbl == DeactivateAll(conversations, u)
       IN IF id \in DOMAIN tbl
          THEN /\ conversations' = tbl
               /\ lastCall' = [op |-> "create", user_id |-> u, id |-> id,
                               ok |-> FALSE]
          ELSE /\ conversations' =
                     (id :> [user_id |-> u, is_active |-> TRUE]) @@ tbl
               /\ lastCall' = [op |-> "create", user_id |-> u, id |-> id,
                               ok |-> TRUE]
    /\ UNCHANGED << pipeline, naming, urls, budgets >>

\* set_active_conversation: return False when the user has no such
\* conversation, else deactivate all of the user's and activate this one
SetActiveConversation(u, id) ==
    /\ IF id \notin DOMAIN conversations \/ conversations[id].user_id # u
       THEN /\ conversations' = conversations
            /\ lastCall' = [op |-> "set_active", user_id |-> u, id |-> id,
                            ok |-> FALSE]
       ELSE /\ conversations' =
                  [i \in DOMAIN conversations |->
                      IF conversations[i].user_id = u
                      THEN [conversations[i] EXCEPT !.is_active = (i = id)]
                      ELSE conversations[i]]
            /\ lastCall' = [op |-> "set_active", user_id |-> u, id |-> id,
                            ok |-> TRUE]
    /\ UNCHANGED << pipeline, naming, urls, budgets >>

\* delete_conversation: delete where id = id and user_id = u
DeleteConversation(u, id) ==
    /\ IF id \in DOMAIN conversations /\ conversations[id].user_id = u
       THEN /\ conversations' =
                  [i \in DOMAIN conversations \ {id} |-> conversations[i]]
            /\ lastCall' = [op |-> "delete", user_id |-> u, id |-> id,
                            ok |-> TRUE]
       ELSE /\ conversations' = conversations
            /\ lastCall' = [op |-> "delete", user_id |-> u, id |-> id,
                            ok |-> FALSE]
    /\ UNCHANGED << pipeline, naming, urls, budgets >>

\* the repository before any call, with the pipeline at rest
ConvInit ==
    /\ Init
    /\ scn = "general"
    /\ fileSize = 500

ConvNext ==
    \/ \E u \in Users : \E id \in ConvIds : CreateConversation(u, id)
    \/ \E u \in Users : \E id \in ConvIds : SetActiveConversation(u, id)
    \/ \E u \in Users : \E id \in ConvIds : DeleteConversation(u, id)

\* calls of the repository, one after the other
ConvSpec == ConvInit /\ [][ConvNext]_vars

\* ------------------------------------------------- the segment file names
\* the character of the digit d, by its code point
Digit(d) == 48 + d

\* the decimal digits of k
RECURSIVE Decimal(_)
Decimal(k) ==
    IF k < 10 THEN << Digit(k) >>
    ELSE Decimal(k \div 10) \o << Digit(k % 10) >>

\* `%03d` of chunk_pattern: at least three digits, padded with zeros
Pattern03(k) ==
    LET d == Decimal(k)
    IN [i \in 1 .. (IF Len(d) < 3 THEN 3 - Len(d) ELSE 0) |-> Digit(0)] \o d

\* the name ffmpeg gives segment number k, from the number on: the part
\* before it (temp_dir/chunk_) and the extension after the dot are the same
\* for every segment of one split; 46 is the code point of the dot
SegName(k) == Pattern03(k) \o << 46 >>

\* a < b in the order of Python strings: by the first character that
\* differs, a proper prefix first
NameLess(a, b) ==
    LET n == IF Len(a) < Len(b) THEN Len(a) ELSE Len(b)
        diff == { i \in 1 .. n : a[i] # b[i] }
    IN IF diff = {} THEN Len(a) < Len(b)
       ELSE LET i == CHOOSE x \in diff : \A y \in diff : x <= y
            IN a[i] < b[i]

\* the directory listing in name order after the file nm was added
WithName(listing, nm) ==
    LET pos == Cardinality({ i \in 1 .. Len(listing) :
                               NameLess(listing[i], nm) })
    IN SubSeq(listing, 1, pos) \o << nm >>
           \o SubSeq(listing, pos + 1, Len(listing))

\* ffmpeg writes the next segment file; segments are numbered from 0
SegWrite ==
    /\ segPc = "split"
    /\ Len(segDir) < MaxSegments
    /\ segDir' = WithName(segDir, SegName(Len(segDir)))
    /\ UNCHANGED << pipeline, repository, urls, budgets, segPlan, segPc >>

\* ffmpeg has ended: chunk_paths = sorted(the chunk_ files of temp_dir)
SegCollect ==
    /\ segPc = "split"
    /\ segPlan' = segDir
    /\ segPc' = "listed"
    /\ UNCHANGED << pipeline, repository, urls, budgets, segDir >>

SegInit ==
    /\ Init
    /\ scn = "general"
    /\ fileSize = 1020

SegNext ==
    \/ SegWrite
    \/ SegCollect

\* one split and the collection of its files
SegSpec == SegInit /\ [][SegNext]_vars


\* ------------------------------------- URL requests (message handler)
\* what audio_temp.m4a holds after request q downloaded: the storage
\* download opens the file for writing and replaces it, yt-dlp leaves a
\* file that is already there as it is
Downloaded(q, existing) == IF existing = 0 THEN {q} ELSE {q, existing}

\* `status_msg = await event.reply(...)`: the handler of q is suspended
UrlStart(q) ==
    /\ req[q].pc = "idle"
    /\ req' = [req EXCEPT ![q].pc = "download"]
    /\ UNCHANGED << pipeline, repository, naming, budgets, tempFile >>

\* download_video_audio, then `await status_msg.edit(...)`; a failed
\* download ends the request
UrlDownload(q) ==
    /\ req[q].pc = "download"
    /\ \/ /\ \E a \in Downloaded(q, tempFile) : tempFile' = a
          /\ req' = [req EXCEPT ![q].pc = "edit"]
       \/ /\ tempFile' = tempFile
          /\ req' = [req EXCEPT ![q].pc = "done"]
    /\ UNCHANGED << pipeline, repository, naming, budgets >>

\* the duration probe and _cleanup_audio_file(audio_path), which run with
\* no suspension between them
Finished(q, heard) ==
    /\ req' = [req EXCEPT ![q].pc = "done", ![q].heard = heard,
                 ![q].measured = tempFile, ![q].removed = tempFile]
    /\ tempFile' = 0

\* transcribe_audio(audio_path) reads the file at the shared path: a file
\* within the budget is sent at once and the request goes on to the probe
\* and the cleanup; a larger one is split and the handler is suspended in
\* gather
UrlTranscribe(q) ==
    /\ req[q].pc = "edit"
    /\ \/ Finished(q, tempFile)
       \/ /\ tempFile # 0
          /\ req' = [req EXCEPT ![q].pc = "gather", ![q].heard = tempFile]
          /\ tempFile' = tempFile
    /\ UNCHANGED << pipeline, repository, naming, budgets >>

\* gather has returned: the probe and the cleanup
UrlFinish(q) ==
    /\ req[q].pc = "gather"
    /\ Finished(q, req[q].heard)
    /\ UNCHANGED << pipeline, repository, naming, budgets >>

UrlInit ==
    /\ Init
    /\ scn = "general"
    /\ fileSize = 500

UrlNext ==
    \/ \E q \in Requests : UrlStart(q)
    \/ \E q \in Requests : UrlDownload(q)
    \/ \E q \in Requests : UrlTranscribe(q)
    \/ \E q \in Requests : UrlFinish(q)

\* URL requests of the message handler that overlap in time
UrlSpec == UrlInit /\ [][UrlNext]_vars


\* ------------------------------------------- the budget and the re-check
\* the values MAX_FILE_SIZE_MB can be configured with
Budgets == 1 .. MaxBudget

\* target_chunk_size_mb = max_chunk_size_mb * safety_margin
Target(b) == b * SAFETY_MARGIN_PCT

\* sizes of a chunk that meets the target of budget b: about nothing, the
\* smallest file that is not skipped, just below the target, the target,
\* and the two sizes around the re-check threshold
WithinTarget(b) ==
    { s \in {0, SKIP_LIMIT, Target(b) - 1, Target(b),
             RECHECK_LIMIT, RECHECK_LIMIT + 1} : s >= 0 /\ s <= Target(b) }

\* Config: MAX_FILE_SIZE_MB = int(os.getenv("MAX_FILE_SIZE_MB", "10"))
BudgetLoad ==
    /\ budget = 0
    /\ budget' \in Budgets
    /\ piece' = piece
    /\ UNCHANGED << pipeline, repository, naming, urls >>

\* the depth-0 run called with the budget splits, and a chunk meets the
\* target
BudgetSplit ==
    /\ budget # 0
    /\ piece.state = "none"
    /\ \E s \in WithinTarget(budget) :
         piece' = [size |-> s, depth |-> 0, state |-> "chunk"]
    /\ UNCHANGED << pipeline, repository, naming, urls, budget >>

\* the task of the chunk: skip it, hand it to a nested run, or send it
BudgetCheck ==
    /\ piece.state = "chunk"
    /\ piece' = [piece EXCEPT !.state =
                    IF IsSkipped(piece.size) THEN "skipped"
                    ELSE IF NeedsResplit(piece.size) THEN "resplit"
                    ELSE "direct"]
    /\ UNCHANGED << pipeline, repository, naming, urls, budget >>

\* the nested run, called with the same budget and recursion_depth + 1: at
\* the ceiling it returns None; below it the chunk duration it computes is
\* not shorter than its file, so its split gives the file back as one chunk
BudgetResplit ==
    /\ piece.state = "resplit"
    /\ piece' = IF AtCeiling(piece.depth + 1)
                THEN [piece EXCEPT !.state = "exhausted", !.depth = @ + 1]
                ELSE [piece EXCEPT !.state = "chunk", !.depth = @ + 1]
    /\ UNCHANGED << pipeline, repository, naming, urls, budget >>

BudgetInit ==
    /\ Init
    /\ scn = "general"
    /\ fileSize = 1020

BudgetNext ==
    \/ BudgetLoad
    \/ BudgetSplit
    \/ BudgetCheck
    \/ BudgetResplit

\* one chunk that meets its target, under each budget
BudgetSpec == BudgetInit /\ [][BudgetNext]_vars


\* ------------------------------------------------------------------ Next
Next ==
    \/ TopStart
    \/ DirectRead
    \/ DirectResponse
    \/ \E r \in DOMAIN run : RunEntry(r)
    \/ \E r \in DOMAIN run : RunProbe(r)
    \/ \E r \in DOMAIN run : RunMkdtemp(r)
    \/ \E r \in DOMAIN run : RunSplit(r)
    \/ \E r \in DOMAIN run : RunCollect(r)
    \/ \E r \in DOMAIN run : RunResume(r)
    \/ \E r \in DOMAIN run : RunRmtree(r)
    \/ \E r \in DOMAIN run : RunMerge(r)
    \/ \E c \in DOMAIN task : TaskAcquire(c)
    \/ \E c \in DOMAIN task : TaskCheckSize(c)
    \/ \E c \in DOMAIN task : TaskRead(c)
    \/ \E c \in DOMAIN task : TaskResponse(c)
    \/ \E c \in DOMAIN task : TaskResult(c)
    \/ \E c \in DOMAIN task : TaskFinally(c)
    \/ \E c \in DOMAIN task : TaskRelease(c)

Spec == Init /\ [][Next]_vars

TypeOK ==
    /\ scn \in Scenarios
    /\ top.pc \in {"start", "direct", "post", "chunked", "done"}
    /\ \A r \in DOMAIN run : Len(r) <= MAX_RECURSION
    /\ \A c \in DOMAIN task : Len(c) \in 1 .. MAX_RECURSION /\ Parent(c) \in DOMAIN run
    /\ cur = Idle \/ cur = << >> \/ cur \in DOMAIN task
    /\ source \subseteq {AudioPath}
    /\ segPc \in {"split", "listed"}
    /\ Len(segDir) <= MaxSegments
    /\ tempFile \in {0} \cup Requests
    /\ \A q \in Requests :
         req[q].pc \in {"idle", "download", "edit", "gather", "done"}
    /\ budget \in {0} \cup Budgets
    /\ piece.state \in
         {"none", "chunk", "skipped", "direct", "resplit", "exhausted"}

\* ============================================================== claims
MaxDirect == MAX_FILE_SIZE_MB * 100

RootRan == << >> \in DOMAIN run

\* chunks of run r whose task returned a text, and the others
Succeeded(r) == { c \in ChunksOf(r) : Truthy(task[c].ret) }

Failed(r) == ChunksOf(r) \ Succeeded(r)

\* ---------------------------------------------------------------- C1
\* C1: a file whose size is at most MAX_FILE_SIZE_MB (the boundary included)
\* gets exactly one RemoteTranscriber call (_transcribe_single_audio, with at
\* most one HTTP request) and the Segmenter is never invoked: no run, no
\* chunk task, no temp directory and no chunk file exists at any time.
C1_DirectExactlyOnce ==
    (top.size >= 0 /\ top.size <= MaxDirect) =>
        /\ top.calls = 1
        /\ top.posts <= 1
        /\ run = << >>
        /\ task = << >>
        /\ dirs = {}
        /\ files = {}

C1_Witness ==
    /\ top.pc = "done"
    /\ top.size = MaxDirect
    /\ top.calls = 1
    /\ top.posts = 1
    /\ Truthy(top.result)

\* ---------------------------------------------------------------- C2
\* the state of the orchestrator's state machine
Phase ==
    CASE top.pc = "start" -> "Start"
      [] top.pc \in {"direct", "post"} -> "DirectCall"
      [] top.pc = "done" -> "Done"
      [] top.pc = "chunked" ->
           IF run[<< >>].pc \in {"entry", "probe", "mkdtemp", "split", "collect"}
           THEN "Segmenter" ELSE "ChunkScheduler"

C2_Step ==
    \/ Phase' = Phase
    \/ Phase = "Start" /\ Phase' = "DirectCall" /\ fileSize <= MaxDirect
    \/ Phase = "Start" /\ Phase' = "Segmenter" /\ fileSize > MaxDirect
    \/ Phase = "Start" /\ Phase' = "Done" /\ top'.result = None
    \/ Phase = "DirectCall" /\ Phase' = "Done"
    \/ Phase = "Segmenter" /\ Phase' = "ChunkScheduler"
    \/ Phase = "Segmenter" /\ Phase' = "Done" /\ top'.result = None
    \/ Phase = "ChunkScheduler" /\ Phase' = "Done"

\* C2: the orchestrator takes one of two paths by the local size alone:
\* Start -> DirectCall -> Done when size <= limit, Start -> Segmenter ->
\* ChunkScheduler (depth 0) -> Done when size > limit; the oversized file is
\* never sent whole; a failing step goes straight to Done with a failure; no
\* step switches to the other path.
C2_StateMachine ==
    /\ [](Phase = "DirectCall" => fileSize <= MaxDirect /\ ~RootRan)
    /\ [](Phase \in {"Segmenter", "ChunkScheduler"} =>
             fileSize > MaxDirect /\ top.calls = 0 /\ top.posts = 0)
    /\ [](Phase = "Done" /\ RootRan => top.calls = 0 /\ top.posts = 0)
    /\ [][C2_Step]_vars

C2_Witness ==
    /\ Phase = "Done"
    /\ RootRan
    /\ fileSize > MaxDirect
    /\ ChunksOf(<< >>) # {}
    /\ Truthy(top.result)
    /\ top.posts = 0

\* ---------------------------------------------------------------- C3
\* the texts of the successful chunks i, i+1, ... of run r, by ascending index
RECURSIVE TextsFrom(_, _)
TextsFrom(r, i) ==
    IF i > run[r].n THEN << >>
    ELSE (IF Truthy(task[r \o << i >>].ret)
          THEN << task[r \o << i >>].ret.text >> ELSE << >>)
         \o TextsFrom(r, i + 1)

\* texts joined by a blank line, built from the right
RECURSIVE BlankLineJoin(_)
BlankLineJoin(ts) ==
    IF Len(ts) = 0 THEN << >>
    ELSE IF Len(ts) = 1 THEN ts[1]
    ELSE BlankLineJoin(SubSeq(ts, 1, Len(ts) - 1)) \o << Sep >> \o ts[Len(ts)]

\* C3: whatever the order in which the chunk tasks complete, the merged
\* transcript of a plan (the one transcribe_audio returns for an oversized
\* file, and the one a nested run is about to return) is the texts of its
\* successful chunks joined by a blank line in ascending chunk index order.
C3_MergeInIndexOrder ==
    /\ \A r \in DOMAIN run :
         (run[r].pc = "merge" /\ Succeeded(r) # {}) =>
            MergeResult(run[r].trans) = Str(BlankLineJoin(TextsFrom(r, 1)))
    /\ (RootRan /\ run[<< >>].pc = "returned" /\ Succeeded(<< >>) # {}) =>
            top.result = Str(BlankLineJoin(TextsFrom(<< >>, 1)))

\* two chunks succeeded and a chunk finished before one of lower index
C3_Witness ==
    /\ top.pc = "done"
    /\ RootRan
    /\ run[<< >>].pc = "returned"
    /\ run[<< >>].ooo
    /\ Cardinality(Succeeded(<< >>)) >= 2
    /\ Truthy(top.result)

\* ---------------------------------------------------------------- C4
\* C4: a plan whose chunks all failed yields a failure (None), never an
\* empty-string success; a transcript is returned only if a chunk succeeded.
C4_AllChunksFailed ==
    /\ top.result # Str(<< >>)
    /\ \A r \in DOMAIN run :
         run[r].pc = "merge" =>
           /\ MergeResult(run[r].trans) # Str(<< >>)
           /\ Succeeded(r) = {} => MergeResult(run[r].trans) = None
           /\ Truthy(MergeResult(run[r].trans)) => Succeeded(r) # {}
    /\ (top.pc = "done" /\ RootRan) =>
           /\ Succeeded(<< >>) = {} => top.result = None
           /\ top.result # None => Succeeded(<< >>) # {}

C4_Witness ==
    /\ top.pc = "done"
    /\ RootRan
    /\ run[<< >>].pc = "returned"
    /\ Cardinality(ChunksOf(<< >>)) >= 2
    /\ Succeeded(<< >>) = {}
    /\ top.result = None

\* ---------------------------------------------------------------- C5
RECURSIVE SumLen(_)
SumLen(cs) ==
    IF cs = {} THEN 0
    ELSE LET c == CHOOSE x \in cs : TRUE
         IN Len(task[c].ret.text) + SumLen(cs \ {c})

\* the position in text of the first token of the text of chunk c
FirstPos(text, c) ==
    CHOOSE k \in 1 .. Len(text) : text[k] = task[c].ret.text[1]

\* v merges exactly the successful chunks of run r, in their order
MergesSurvivors(v, r) ==
    /\ Truthy(v)
    /\ Len(v.text) = SumLen(Succeeded(r)) + Cardinality(Succeeded(r)) - 1
    /\ \A k \in 1 .. Len(v.text) :
         \/ v.text[k] = Sep
         \/ \E c \in Succeeded(r) : \E j \in 1 .. Len(task[c].ret.text) :
              v.text[k] = task[c].ret.text[j]
    /\ \A c \in Succeeded(r) :
         \E k \in 1 .. Len(v.text) : v.text[k] = task[c].ret.text[1]
    /\ \A c, d \in Succeeded(r) :
         Index(c) < Index(d) => FirstPos(v.text, c) < FirstPos(v.text, d)

\* C5: when a chunk of a plan succeeds and others fail, the run succeeds and
\* a failed chunk adds nothing to the merged text: no placeholder, no extra
\* separator, and the surviving texts keep their relative order.
C5_FailedChunkAddsNothing ==
    /\ \A r \in DOMAIN run :
         (run[r].pc = "merge" /\ Succeeded(r) # {} /\ Failed(r) # {}) =>
            MergesSurvivors(MergeResult(run[r].trans), r)
    /\ (RootRan /\ run[<< >>].pc = "returned"
          /\ Succeeded(<< >>) # {} /\ Failed(<< >>) # {}) =>
            MergesSurvivors(top.result, << >>)

\* a failed chunk lies between two successful ones
C5_Witness ==
    /\ top.pc = "done"
    /\ RootRan
    /\ run[<< >>].pc = "returned"
    /\ \E c, d, e \in ChunksOf(<< >>) :
         /\ Index(c) < Index(d) /\ Index(d) < Index(e)
         /\ c \in Succeeded(<< >>) /\ d \in Failed(<< >>) /\ e \in Succeeded(<< >>)
    /\ Truthy(top.result)

\* ---------------------------------------------------------------- C6
\* C6: after any pipeline run, on every exit path, no chunk file and no temp
\* directory created by that run remains on disk.
C6_NothingLeftOnDisk ==
    top.pc = "done" => (dirs = {} /\ files = {})

\* ---------------------------------------------------------------- C7
\* the task of chunk c has passed its finally clause
PastFinally(c) == task[c].pc \in {"release", "done"}

Holders(r) ==
    { c \in ChunksOf(r) : task[c].pc \notin {"ready", "done"} }

\* the chunk tasks of run r whose remote call is executing
InFlight(r) == { c \in ChunksOf(r) : task[c].pc = "post" }

\* C8: at no point do more than 5 remote calls of the chunks of one scheduler
\* run execute at the same time, whatever the number of chunks in the plan:
\* a remote call executes only in a task that holds one of the 5 slots.
C8_AtMostFiveCalls ==
    \A r \in DOMAIN run :
        /\ Cardinality(InFlight(r)) <= 5
        /\ Cardinality(Holders(r)) <= 5
        /\ run[r].pc = "gather" => run[r].sem >= 0

\* a plan of more than 5 chunks: all 5 slots are taken, one of the holders is
\* in its remote call and a further chunk waits for a slot
C8_Witness ==
    /\ RootRan
    /\ run[<< >>].n > 5
    /\ Cardinality(Holders(<< >>)) = 5
    /\ Cardinality(InFlight(<< >>)) = 1
    /\ \E c \in ChunksOf(<< >>) : task[c].pc = "ready"

C10_Step ==
    top.calls = 1 =>
        /\ top.pc # "done"
        /\ top'.pc \in {"direct", "post", "done"}
        /\ top'.calls = 1
        /\ top'.posts <= 1
        /\ run' = << >>
        /\ task' = << >>
        /\ (top'.pc = "done" /\ top'.resp # "200") => top'.result = None

\* C10: on the direct path a failure of the single remote call, a 413
\* included, is the result of the request: once the direct call was made no
\* run is started, no further remote call is issued, and nothing happens
\* after its result is returned.
C10_DirectFailureIsTerminal == [][C10_Step]_vars

C10_Witness ==
    /\ top.pc = "done"
    /\ top.size <= MaxDirect
    /\ top.resp = "413"
    /\ top.posts = 1
    /\ top.result = None
    /\ run = << >>

\* --------------------------------------------------------------- C11
\* a chunk at the deepest level whose file is still above the re-check limit
Exhausted(c) == Len(c) = MAX_RECURSION /\ task[c].size > RECHECK_LIMIT

\* the text of chunk c occurs in the sequence of token sequences ts
MergedIn(c, ts) == \E k \in 1 .. Len(ts) : ts[k] = task[c].ret.text

\* C11: an oversized chunk is re-split one level deeper with the budget of
\* its run as long as the depth is below MAX_RECURSION (3); the re-split of a
\* chunk at depth 3 returns at once, without a split or a remote call, and
\* only that chunk fails: the plan it belongs to still merges the text of
\* every sibling that succeeded, and a plan (the request at depth 0) fails
\* only when none of its chunks succeeded.
C11_OnlyExhaustedChunkFails ==
    /\ \A c \in DOMAIN task :
         (task[c].size > RECHECK_LIMIT /\ Len(c) < MAX_RECURSION
             /\ task[c].pc = "nested") =>
            /\ c \in DOMAIN run
            /\ run[c].size = task[c].size
            /\ run[c].maxMb = run[Parent(c)].maxMb
            /\ run[c].maxMb = MAX_FILE_SIZE_MB
    /\ \A c \in DOMAIN task :
         Exhausted(c) =>
            /\ task[c].pc \in {"nested", "after", "finally", "release", "done"}
            /\ c \in DOMAIN run => run[c].pc = "entry"
            /\ c \notin dirs
            /\ FilesIn(c, files) = {}
            /\ ChunksOf(c) = {}
            /\ task[c].posts = 0
            /\ task[c].val = None
            /\ task[c].ret = None
    /\ \A r \in DOMAIN run :
         (run[r].pc = "merge" /\ \E c \in ChunksOf(r) : Exhausted(c)) =>
            /\ \A d \in ChunksOf(r) :
                 Truthy(task[d].ret) => MergedIn(d, run[r].trans)
            /\ Len(run[r].trans) = Cardinality(Succeeded(r))
            /\ MergeResult(run[r].trans) = None <=> Succeeded(r) = {}
    /\ (top.pc = "done" /\ RootRan /\ run[<< >>].pc = "returned") =>
            (top.result = None <=> Succeeded(<< >>) = {})

\* the chunk 1.1.1 hit the ceiling and the request returned the texts of its
\* sibling 1.1.2, of 1.2 and of 2, one per level
C11_Witness ==
    /\ scn = "deep"
    /\ top.pc = "done"
    /\ top.result = Str(<< Tok(<< 1, 1, 2 >>), Sep, Tok(<< 1, 2 >>), Sep,
                           Tok(<< 2 >>) >>)

\* --------------------------------------------------------------- C12
\* the size re-check of a chunk task: what it does with the size it read
C12_Step ==
    \A c \in DOMAIN task :
        (task[c].pc = "body" /\ c \in DOMAIN task' /\ task'[c].pc # "body") =>
            /\ task'[c].size = RECHECK_LIMIT =>
                  (task'[c].pc = "single" /\ c \notin DOMAIN run')
            /\ task'[c].size > RECHECK_LIMIT =>
                  (task'[c].pc = "nested" /\ c \in DOMAIN run'
                     /\ run'[c].pc = "entry")

\* C12: a chunk whose size is exactly the re-check threshold (9.5 MB) goes to
\* _transcribe_single_audio as a whole and no run ever re-splits it; a chunk
\* above the threshold is handed to a nested run and no request is ever made
\* for it as a whole.
C12_RecheckBoundary ==
    /\ [](\A c \in DOMAIN task :
            /\ task[c].size = RECHECK_LIMIT =>
                 /\ c \notin DOMAIN run
                 /\ task[c].pc \in {"single", "post", "after", "finally",
                                    "release", "done"}
                 /\ task[c].pc = "post" => task[c].posts = 1
            /\ task[c].size > RECHECK_LIMIT =>
                 /\ task[c].posts = 0
                 /\ task[c].pc \in {"nested", "after", "finally", "release",
                                    "done"}
            /\ c \in DOMAIN run => task[c].size > RECHECK_LIMIT)
    /\ [][C12_Step]_vars

\* in one plan a chunk of 9.5 MB was transcribed by one request and a chunk
\* of 9.51 MB ended without any request for it
C12_Witness ==
    \E c, d \in DOMAIN task :
        /\ Parent(c) = Parent(d)
        /\ task[c].size = RECHECK_LIMIT /\ task[c].pc = "done"
        /\ task[c].posts = 1 /\ Truthy(task[c].ret)
        /\ task[d].size = RECHECK_LIMIT + 1 /\ task[d].pc = "done"
        /\ task[d].posts = 0

\* --------------------------------------------------------------- C13
\* what a step may do to the chunk tasks: a task ends only by running to its
\* own end, its outcome is then final, the end of a task leaves its siblings
\* as they are, and a task goes away only with its run, after it ended
C13_Step ==
    /\ \A c \in DOMAIN task :
         /\ c \notin DOMAIN task' => task[c].pc = "done"
         /\ (c \in DOMAIN task' /\ task[c].pc = "done") =>
               (task'[c] = task[c]
                  /\ run'[Parent(c)].results[Index(c)]
                       = run[Parent(c)].results[Index(c)])
         /\ (c \in DOMAIN task' /\ task[c].pc # "done" /\ task'[c].pc = "done") =>
               /\ task[c].pc = "release"
               /\ cur = c
               /\ \A d \in ChunksOf(Parent(c)) \ {c} : task'[d] = task[d]
    /\ \A r \in DOMAIN run :
         (r \in DOMAIN run' /\ run[r].pc = "gather" /\ run'[r].pc # "gather") =>
               \A c \in ChunksOf(r) : task[c].pc = "done"

\* C13: a run goes on to the filter and the merge only when every chunk of
\* its plan has ended, with a text or without; the failure or the exception
\* of a chunk cancels no sibling, and every chunk ends with one outcome that
\* never changes afterwards.
C13_MergeAfterAllOutcomes ==
    /\ [](\A r \in DOMAIN run :
            run[r].pc \in {"rmtree", "merge", "returned"} =>
               /\ Cardinality(ChunksOf(r)) = run[r].n
               /\ \A c \in ChunksOf(r) :
                    /\ task[c].pc = "done"
                    /\ run[r].results[Index(c)] # Pending
                    /\ run[r].results[Index(c)] = task[c].ret)
    /\ [][C13_Step]_vars

\* the first chunk raised and ended, the second one was transcribed after it
\* and the run is at its merge
C13_Witness ==
    /\ RootRan
    /\ run[<< >>].pc = "merge"
    /\ ~run[<< >>].ooo
    /\ run[<< >>].n >= 2
    /\ task[<< 1 >>].size = -1 /\ task[<< 1 >>].ret = None
    /\ task[<< 2 >>].posts = 1 /\ Truthy(task[<< 2 >>].ret)
    /\ run[<< >>].trans = << task[<< 2 >>].ret.text >>

\* --------------------------------------------------------------- C14
\* The text a run and a chunk task return, computed from the answers of the
\* environment alone (inputs), chunk by chunk in index order, without the
\* tasks, the semaphore or the gather slots: what the code returns when
\* nothing runs concurrently.
RECURSIVE ExpectedOfRun(_), ExpectedOfChunk(_), ExpectedTexts(_, _)
ExpectedOfChunk(c) ==
    LET a == inputs[c]
    IN IF a.out # Pending THEN (IF Truthy(a.out) THEN a.out ELSE None)
       ELSE IF a.size < 1 THEN None
       ELSE IF a.size > 950
       THEN LET v == ExpectedOfRun(c)
            IN IF Truthy(v) THEN v ELSE None
       ELSE IF a.resp = "200" THEN Str(<< Tok(c) >>) ELSE None

ExpectedTexts(r, i) ==
    IF i > inputs[r].plan THEN << >>
    ELSE LET v == ExpectedOfChunk(r \o << i >>)
         IN (IF Truthy(v) THEN << v.text >> ELSE << >>) \o ExpectedTexts(r, i + 1)

ExpectedOfRun(r) ==
    IF Len(r) >= 3 THEN None
    ELSE LET a == inputs[r]
         IN IF \/ a.entry # "ok"
               \/ a.dur < 0
               \/ 10 * 85 * a.dur < 30 * a.size
               \/ a.split # "none"
               \/ a.plan < 1
            THEN None
            ELSE LET ts == ExpectedTexts(r, 1)
                 IN IF ts = << >> THEN None ELSE Str(BlankLineJoin(ts))

\* C14: the text the pipeline returns for an oversized file is a function of
\* the input, the split results and the remote responses alone: whatever the
\* order in which the chunk tasks were scheduled and completed, it is the
\* text computed from those answers in index order, so two runs with the
\* same answers return the same text.  The same holds for every nested run.
C14_ResultDependsOnAnswersOnly ==
    /\ (top.pc = "done" /\ RootRan) => top.result = ExpectedOfRun(<< >>)
    /\ \A r \in DOMAIN run :
         run[r].pc = "merge" => MergeResult(run[r].trans) = ExpectedOfRun(r)
    /\ \A c \in DOMAIN task :
         /\ (task[c].pc = "after" /\ task[c].size > RECHECK_LIMIT) =>
               task[c].val = ExpectedOfRun(c)
         /\ task[c].pc \in {"finally", "release", "done"} =>
               task[c].ret = ExpectedOfChunk(c)

\* every chunk of the wide plan succeeded, re-split chunks included, and a
\* chunk ended before one of lower index
C14_Witness ==
    /\ scn = "wide"
    /\ top.pc = "done"
    /\ RootRan
    /\ run[<< >>].ooo
    /\ Truthy(top.result)
    /\ Len(top.result.text) = 2 * WideChunks - 1
    /\ top.result.text[1] = Tok(<< 1 >>)
    /\ top.result.text[3] = Tok(<< 2, 1 >>)

\* --------------------------------------------------------------- C15
\* ffprobe of the depth-0 run ended with an error code or raised
ProbeFailed == << >> \in DOMAIN inputs /\ inputs[<< >>].dur \in {-1, -2}

\* C15: a duration probe that fails or gives no duration does not fail the
\* pipeline: the request does not end in failure without having gone on to
\* the split.
C15_ProbeFailureIsNotFatal ==
    ProbeFailed =>
        ~(top.pc = "done" /\ top.result = None
            /\ inputs[<< >>].split = "none" /\ inputs[<< >>].plan = -1)

\* --------------------------------------------------------------- C16
\* chunk_duration of run r, in seconds, is below 30: 0.85 * 10 MB / size *
\* duration < 30 with the size in hundredths of a MB
ChunkDurationBelow30(r) == 850 * inputs[r].dur < 30 * inputs[r].size

\* run r was probed and its duration is known
Probed(r) == inputs[r].dur >= 0 /\ inputs[r].out = Pending

\* C16: when the chunk duration computed from the probed duration is below
\* 30 seconds the run returns a failure and has made no temp directory, no
\* chunk file, no chunk task and no remote call; when it is exactly 30
\* seconds or more the run goes on to mkdtemp and the split.
C16_ChunkDurationFloor ==
    \A r \in DOMAIN inputs :
        Probed(r) =>
           IF ChunkDurationBelow30(r)
           THEN /\ r \notin dirs
                /\ FilesIn(r, files) = {}
                /\ ChunksOf(r) = {}
                /\ inputs[r].split = "none"
                /\ inputs[r].plan = -1
                /\ IF r = << >>
                   THEN /\ top.pc = "done" /\ top.result = None
                        /\ top.posts = 0
                        /\ run[r].pc = "returned"
                   ELSE /\ r \notin DOMAIN run
                        /\ task[r].val = None
                        /\ task[r].posts = 0
           ELSE \/ r \in DOMAIN run /\ run[r].pc = "mkdtemp" /\ r \notin dirs
                \/ r \in DOMAIN run /\ run[r].pc = "split" /\ r \in dirs
                \/ inputs[r].split # "none"
                \/ inputs[r].plan >= 0

\* a file of 10.2 MB and 36 s gives chunks of exactly 30 s and was split; its
\* chunk of 9.51 MB and 30 s gives chunks below 30 s and its re-split failed
C16_Witness ==
    /\ fileSize = 1020
    /\ RootRan
    /\ inputs[<< >>].dur = 36
    /\ inputs[<< >>].plan >= 1
    /\ \E c \in ChunksOf(<< >>) :
         /\ task[c].pc = "after"
         /\ inputs[c].size = 951 /\ inputs[c].dur = 30
         /\ task[c].val = None
         /\ c \notin dirs

\* --------------------------------------------------------------- C17
\* the file of chunk c is below 0.01 MB
NearZero(c) == task[c].size >= 0 /\ task[c].size < SKIP_LIMIT

\* C17: a chunk file of near-zero size is skipped without a remote call or a
\* re-split and is an empty success: it adds no text and does not count as
\* a failed chunk, so a plan whose chunks were all skipped is not a plan
\* whose chunks all failed.
C17_SkippedChunkIsNotAFailure ==
    /\ \A c \in DOMAIN task :
         NearZero(c) =>
            /\ task[c].posts = 0
            /\ c \notin DOMAIN run
            /\ ~Truthy(task[c].ret)
    /\ (top.pc = "done" /\ RootRan /\ run[<< >>].pc = "returned"
          /\ ChunksOf(<< >>) # {}
          /\ \A c \in ChunksOf(<< >>) : NearZero(c)) =>
            top.result # None

\* --------------------------------------------------------------- C18
\* what transcribe_audio returns on the direct path for the HTTP outcome o
DirectResultFor(o) == TopExcept(TranscribeSingle(ApiTranscribe(o, << >>)))

\* C18: a run that got status 413 returns a result different from the one
\* the same run returns for any other failure of the remote call (another
\* status, a timeout or a network error).
C18_TooLargeIsDistinguishable ==
    (top.pc = "done" /\ top.resp = "413") =>
        \A o \in {"500", "exc"} : top.result # DirectResultFor(o)

\* --------------------------------------------------------------- C19
\* the runs that hold a working directory
WithDir == { r \in DOMAIN run : run[r].dir # NoDir /\ run[r].pc # "returned" }

\* what a step may do to the directories and the chunk files: mkdtemp gives
\* a directory that did not exist and is empty, a chunk file is written by
\* the run that holds its directory, and it is removed by the task it was
\* handed to or by the run that holds its directory
C19_Step ==
    /\ \A r \in DOMAIN run :
         (r \in DOMAIN run' /\ run[r].dir = NoDir /\ run'[r].dir # NoDir) =>
            /\ run'[r].dir \notin dirs
            /\ FilesIn(run'[r].dir, files) = {}
            /\ \A q \in DOMAIN run \ {r} : run[q].dir # run'[r].dir
    /\ \A f \in files' \ files :
         \E r \in WithDir : cur = r /\ run[r].pc = "split" /\ Parent(f) = run[r].dir
    /\ \A f \in files \ files' :
         \/ \E c \in DOMAIN task :
              /\ cur = c /\ task[c].path = f /\ task[c].pc = "finally"
              /\ Parent(f) = run[Parent(c)].dir
         \/ \E r \in WithDir : cur = r /\ Parent(f) = run[r].dir

ActiveOf(u) ==
    { i \in DOMAIN conversations :
        conversations[i].user_id = u /\ conversations[i].is_active }

\* a create_conversation that completed keeps every conversation the user
\* had, none of them active
C20_Step ==
    (lastCall'.op = "create" /\ lastCall'.ok) =>
        \A i \in DOMAIN conversations :
            conversations[i].user_id = lastCall'.user_id =>
                /\ i \in DOMAIN conversations'
                /\ conversations'[i].user_id = lastCall'.user_id
                /\ ~conversations'[i].is_active

\* C20: when create_conversation completes, the new conversation is the only
\* active one of its user and the conversations the user had are kept,
\* inactive; after any sequence of create_conversation,
\* set_active_conversation and delete_conversation calls every user has at
\* most one active conversation.
C20_AtMostOneActive ==
    /\ [](\A u \in Users : Cardinality(ActiveOf(u)) <= 1)
    /\ []((lastCall.op = "create" /\ lastCall.ok) =>
             ActiveOf(lastCall.user_id) = {lastCall.id})
    /\ []((lastCall.op = "set_active" /\ lastCall.ok) =>
             ActiveOf(lastCall.user_id) = {lastCall.id})
    /\ [][C20_Step]_vars

\* a user with two conversations got a third one, which is the active one
C20_Witness ==
    /\ lastCall.op = "create"
    /\ lastCall.ok
    /\ Cardinality({ i \in DOMAIN conversations :
                       conversations[i].user_id = lastCall.user_id }) = 3
    /\ ActiveOf(lastCall.user_id) = {lastCall.id}

\* ------------------------------------------------------------- fairness
\* The event loop always resumes a task that can run, and every remote call
\* and every ffprobe/ffmpeg call returns: a step that stays possible is
\* eventually taken.
FairSpec == Init /\ [][Next]_vars /\ WF_vars(Next)

\* --------------------------------------------------------------- C21
\* a run at the recursion ceiling returns at its depth check: it has made
\* no directory, no chunk file and no chunk task, and no run is any deeper
NoSplitAtCeiling ==
    /\ \A r \in DOMAIN run :
         /\ Len(r) <= MAX_RECURSION
         /\ Len(r) >= MAX_RECURSION =>
              /\ run[r].pc = "entry"
              /\ run[r].dir = NoDir
              /\ ChunksOf(r) = {}
    /\ \A d \in dirs : Len(d) < MAX_RECURSION
    /\ \A f \in files : Len(Parent(f)) < MAX_RECURSION
    /\ \A c \in DOMAIN task : Len(Parent(c)) < MAX_RECURSION

\* C21: no split is ever performed at recursion depth 3 or more (splits
\* happen at depths 0, 1 and 2 only), and transcribe_audio returns on every
\* input, given that each remote call and each tool call returns.
C21_BoundedRecursionTerminates ==
    /\ []NoSplitAtCeiling
    /\ <>(top.pc = "done")

\* every chunk of every plan stayed oversized: the runs at depth 3 returned
\* at the depth check and the request has ended without a text
C21_Witness ==
    /\ scn = "heavy"
    /\ top.pc = "done"
    /\ top.result = None
    /\ \A i \in 1 .. DeepChunks :
         << i >> \in DOMAIN inputs /\ NeedsResplit(inputs[<< i >>].size)

\* --------------------------------------------------------------- C22
\* C22 as stated: a remote call suspends its task until the response
\* arrives, so while the remote call of one chunk is awaiting its response
\* a chunk of the same plan that waits with a slot free can start, and its
\* remote call is then in flight at the same time.
C22_RemoteCallsOverlap ==
    \A c \in DOMAIN task :
        task[c].pc = "post" =>
            \A d \in ChunksOf(Parent(c)) :
                (task[d].pc = "ready" /\ run[Parent(c)].sem > 0)
                    => ENABLED TaskAcquire(d)

\* --------------------------------------------------------------- C23
\* the chunk tasks that hold a slot of some limiter of the invocation tree
AllHolders == UNION { Holders(r) : r \in DOMAIN run }

\* C23: each run has a limiter of its own with 5 slots, and while a nested
\* run is under way the chunk task that called it still holds its slot of
\* the caller's limiter.
C23_LimiterPerLevel ==
    \A r \in DOMAIN run :
        run[r].pc = "gather" =>
            /\ run[r].sem + Cardinality(Holders(r)) =
                   MAX_CONCURRENT_TRANSCRIPTIONS
            /\ r # << >> =>
                   /\ task[r].pc = "nested"
                   /\ r \in Holders(Parent(r))
                   /\ run[Parent(r)].sem + Cardinality(Holders(Parent(r))) =
                          MAX_CONCURRENT_TRANSCRIPTIONS

\* more than 5 chunk tasks of one invocation tree hold a slot at the same
\* time: the 5 slots of the depth-0 limiter are taken, some of them by tasks
\* that wait for their nested run, and chunks of nested runs hold slots too
C23_Witness ==
    /\ RootRan
    /\ Cardinality(Holders(<< >>)) = MAX_CONCURRENT_TRANSCRIPTIONS
    /\ Cardinality(AllHolders) > MAX_CONCURRENT_TRANSCRIPTIONS
    /\ \E r \in DOMAIN run :
         r # << >> /\ run[r].pc = "gather" /\ Holders(r) # {}

\* --------------------------------------------------------------- C24
\* C24 as stated: for every number of segments the splitter writes, the
\* chunk plan (the files ordered by sorting their names) lists the segments
\* in production order: entry k of the plan is segment number k - 1.
C24_PlanInProductionOrder ==
    segPc = "listed" =>
        \A k \in 1 .. Len(segPlan) : segPlan[k] = SegName(k - 1)

\* --------------------------------------------------------------- C25
\* C25: in one pipeline run every file is submitted to the remote endpoint
\* at most once: the source on the direct path, and each chunk that is not
\* re-split; a chunk that is re-split is never submitted itself, and a call
\* that failed is not made again.
C25_SubmittedAtMostOnce ==
    /\ top.posts <= 1
    /\ top.calls <= 1
    /\ RootRan => top.posts = 0
    /\ \A c \in DOMAIN task :
         /\ task[c].posts <= 1
         /\ task[c].pc \in {"ready", "body", "single", "nested"}
                => task[c].posts = 0
         /\ (task[c].size # -2 /\ NeedsResplit(task[c].size))
                => task[c].posts = 0

\* the request has ended, and a chunk whose one remote call failed was not
\* submitted again
C25_Witness ==
    /\ RootRan
    /\ top.pc = "done"
    /\ \E c \in ChunksOf(<< >>) :
         /\ task[c].pc = "done"
         /\ task[c].posts = 1
         /\ ~Truthy(task[c].ret)

\* --------------------------------------------------------------- C26
\* some chunk task waits for the nested run it started
NestedPending == \E c \in DOMAIN task : task[c].pc = "nested"

\* a run whose gather has returned: its limiter has its 5 slots back, none
\* of its chunk tasks holds a slot, and no run nested in it is left
SlotsReleased ==
    \A r \in DOMAIN run :
        run[r].pc \in {"rmtree", "merge", "returned"} =>
            /\ run[r].n > 0 => run[r].sem = MAX_CONCURRENT_TRANSCRIPTIONS
            /\ Holders(r) = {}
            /\ \A x \in DOMAIN run :
                 Len(x) > Len(r) => SubSeq(x, 1, Len(r)) # r

\* C26: nested limiter use never deadlocks.  Every chunk task that waits
\* for its nested run, holding a slot of its caller's limiter, gets it to
\* completion: in the end no task waits and transcribe_audio has returned
\* (a pipeline that got stuck would stay short of that for ever); and when
\* a run returns every slot of its limiter and of the nested limiters has
\* been released.
C26_NoDeadlockSlotsReleased ==
    /\ []SlotsReleased
    /\ <>[](top.pc = "done" /\ ~NestedPending)

\* all 5 slots of the depth-0 limiter are held, a sixth chunk waits, and a
\* nested run of one of the holders has ended its gather with its own 5
\* slots free
C26_Witness ==
    /\ RootRan
    /\ run[<< >>].sem = 0
    /\ \E c \in ChunksOf(<< >>) : task[c].pc = "ready"
    /\ \E r \in DOMAIN run :
         /\ r # << >>
         /\ run[r].pc = "merge"
         /\ run[r].sem = MAX_CONCURRENT_TRANSCRIPTIONS
         /\ task[r].pc = "nested"

\* --------------------------------------------------------------- C27
\* C27: the file at audio_path is on disk in every state of the pipeline,
\* from the call of transcribe_audio to its return on every path: the
\* pipeline removes chunk files and temp directories only, and the split
\* writes into its temp directory only.
C27_InputFileLeftInPlace ==
    /\ AudioPath \in source
    /\ AudioPath \notin files
    /\ \A c \in DOMAIN task : task[c].path # AudioPath
    /\ \A d \in dirs : Parent(AudioPath) # d

\* a chunked request has ended: chunk files were removed by their tasks, the
\* temp directory is gone, and the file at audio_path is still there
C27_Witness ==
    /\ RootRan
    /\ top.pc = "done"
    /\ source = {AudioPath}
    /\ \E c \in ChunksOf(<< >>) : task[c].del = 1
    /\ dirs = {}

\* --------------------------------------------------------------- C28
\* the remote call of chunk c returned status 200 with an empty text
EmptyText(c) == c \in DOMAIN inputs /\ inputs[c].resp = "200empty"

\* what a remote call that failed with status 500 gives the same caller
FailedCallValue(c) == TranscribeSingle(ApiTranscribe("500", c))

C28_Inv ==
    /\ top.resp = "200empty" =>
           /\ top.pc = "done"
           /\ top.result = TopExcept(FailedCallValue(<< >>))
           /\ top.result = None
           /\ ~RootRan
    /\ \A c \in DOMAIN task :
         /\ task[c].ret # Str(<< >>)
         /\ EmptyText(c) =>
              /\ task[c].val = FailedCallValue(c)
              /\ task[c].pc \in {"finally", "release"} => task[c].ret = None
    /\ \A r \in DOMAIN run :
         /\ \A i \in 1 .. Len(run[r].results) : run[r].results[i] # Str(<< >>)
         /\ \A i \in 1 .. Len(run[r].trans) : run[r].trans[i] # Str(<< >>)
    /\ top.result # Str(<< >>)

\* the task of a chunk whose call returned an empty text ends as a failed
\* one: gather stores None for it and the chunk is among the failed chunks
C28_Step ==
    \A c \in DOMAIN task :
        (EmptyText(c) /\ task[c].pc = "release" /\ task'[c].pc = "done") =>
            /\ run'[Parent(c)].results[Index(c)] = None
            /\ ~Truthy(task'[c].ret)
            /\ Filter(run'[Parent(c)].results) =
                   Filter([run[Parent(c)].results EXCEPT ![Index(c)] = None])

\* C28: a remote response with status 200 and an empty text is treated like
\* a failed call: the direct path returns None, a chunk of a plan adds
\* nothing and counts as failed, and no result of a call, a chunk, a run or
\* the request is the empty string.
C28_EmptyTextIsFailure == []C28_Inv /\ [][C28_Step]_vars

\* the last chunk of a plan got an empty text and every other chunk of the
\* plan has ended without a text
C28_Witness ==
    /\ RootRan
    /\ Cardinality(ChunksOf(<< >>)) >= 2
    /\ \E c \in ChunksOf(<< >>) :
         /\ EmptyText(c)
         /\ task[c].pc = "release"
         /\ \A d \in ChunksOf(<< >>) \ {c} :
              task[d].pc = "done" /\ ~Truthy(task[d].ret)

\* --------------------------------------------------------------- C29
\* C29 as stated: with URL requests that overlap, a request that has
\* downloaded and not yet cleaned up finds its own audio in its file, and
\* each request transcribes, measures and deletes only the audio it
\* downloaded itself.
C29_RequestsUseOwnFile ==
    \A q \in Requests :
        /\ req[q].pc \in {"edit", "gather"} => tempFile = q
        /\ req[q].heard \in {0, q}
        /\ req[q].pc = "done" =>
              /\ req[q].measured \in {0, q}
              /\ req[q].removed \in {0, q}

\* --------------------------------------------------------------- C30
\* C30 as stated: for every configured budget, a chunk whose size is at
\* most the target of 0.85 x budget is not handed to a nested run, so it
\* stays a chunk of the depth-0 plan and never ends in recursion exhaustion.
C30_ChunkWithinTargetIsNotResplit ==
    /\ piece.state \notin {"resplit", "exhausted"}
    /\ piece.depth = 0

====
